---- MODULE Spec2Model ----
(***************************************************************************)
(* A model of the mote DOM wrappers: El (one node), All (a node list) and  *)
(* Mote (a created node), over a model of the host document tree.          *)
(*                                                                         *)
(* Strings are sequences of lexical atoms: "div" and "a" are identifier    *)
(* atoms, "#" is the hash character, and the text a non-string value       *)
(* coerces to is one atom.  A JavaScript value is a record                 *)
(* [t, s, n, rt]: its type tag, its string payload, its numeric payload    *)
(* (a number, a boolean as 0/1, or a node), and for a function the type of *)
(* the value it returns (s and n then hold the returned payload).          *)
(***************************************************************************)
EXTENDS Integers, Sequences, FiniteSets, TLC

VARIABLES
  created,     \* the element nodes that exist (document.createElement ran)
  tagName,     \* node -> tag name of the element
  elemId,      \* node -> id attribute ("" when absent)
  parentNode,  \* node -> parent, or NoNode
  childNodes,  \* node -> sequence of children
  el,          \* El.element of the wrapper the last new El(...) produced, or NoNode
  mote,        \* El.element of the wrapper the last new Mote(...) produced, or NoNode
  allEls,      \* All.elements of the wrapper the last new All(...) produced
  generated,   \* nodes created by Mote from a tag specifier without '#'
  last,        \* the operation that ran last, its argument and its outcome
  allMade,     \* whether new All(...) produced a wrapper
  invoked,     \* the calls the callback of the last operation received, in order
  inputType,   \* element of the page -> type attribute ("" when absent)
  value,       \* element of the page -> what the element's value holds
  checked,     \* element of the page -> checkedness of an input element
  srcOf,       \* element of the page -> src of an image element
  altOf,       \* element of the page -> alt of an image element
  returned,    \* the value the last operation returned, when it returns one
  display,     \* node -> style.display of the element
  batch,       \* the last call of All.fadeIn or All.fadeOut: its animations and promise
  steps,       \* what the last operation did, in the order it did it
  microtasks,  \* the promises of appendWithin whose reactions have not run yet
  console,     \* what the last operation wrote to the console
  attribute,   \* node -> the attribute named k of the element (null when absent)
  classList,   \* node -> the class names of the element
  animations   \* the fades El.fadeIn and El.fadeOut started, in the order of the calls

tree == <<created, tagName, elemId, parentNode, childNodes>>
all == <<allEls, allMade>>
form == <<inputType, value, checked, srcOf, altOf>>
fade == <<display, batch>>
within == <<steps, microtasks, console>>
attrs == <<attribute, classList, animations>>
more == <<invoked, form, returned, fade, within>>
vars == <<created, tagName, elemId, parentNode, childNodes, el, mote, allEls, generated, last,
          allMade, more, attrs>>

----------------------------------------------------------------------------
(* Bounds *)

MaxPool == 2     \* elements the surrounding code creates in one run
MaxMotes == 1    \* elements Mote creates in one run
MaxParts == 2    \* '#'-separated parts of an input string
MaxPending == 2  \* promises of appendWithin that await their reaction

----------------------------------------------------------------------------
(* The host document *)

NoNode == 0
DOC == 1
HTML == 2
HEAD == 3
BODY == 4
FRAG == 5

\* the elements of a form page: an element of each kind that holds a value, a
\* checkbox, an image and a plain container (tag name and type attribute)
Fixture ==
  << <<"input", "">>, <<"input", "checkbox">>, <<"select", "">>, <<"textarea", "">>,
     <<"option", "">>, <<"progress", "">>, <<"img", "">>, <<"div", "">> >>

Max(a, b) == IF a > b THEN a ELSE b
Min(a, b) == IF a < b THEN a ELSE b
PoolSize == Max(MaxPool, MaxMotes)
Fixed == {DOC, HTML, HEAD, BODY, FRAG}
\* the nodes of a run: the fixed ones and those createElement can return
Nodes == DOMAIN parentNode
Pool == Nodes \ Fixed
Live == Fixed \cup created

Names == {<<"div">>, <<"a">>}
NameAtoms == {"div", "a"}
FormAtoms == {"input", "select", "textarea", "option", "progress", "img"}
IdentAtoms ==
  NameAtoms \cup FormAtoms
  \cup {"html", "head", "body", "true", "false", "null", "undefined", "parent-"}
NoStr == <<>>

----------------------------------------------------------------------------
(* JavaScript values *)

Val(t, s, n, rt) == [t |-> t, s |-> s, n |-> n, rt |-> rt]
Str(s) == Val("string", s, 0, "")
Num(k) == Val("number", NoStr, k, "")
Bool(b) == Val("boolean", NoStr, IF b THEN 1 ELSE 0, "")
Null == Val("null", NoStr, 0, "")
Undefined == Val("undefined", NoStr, 0, "")
NodeRef(n) == Val("node", NoStr, n, "")
Fn(r) == Val("function", r.s, r.n, r.t)

\* the value a zero-argument function returns when it is called
Ret(f) == Val(f.rt, f.s, f.n, "")

\* !v
Falsy(v) ==
  \/ v.t \in {"null", "undefined"}
  \/ v.t = "string" /\ v.s = NoStr
  \/ v.t \in {"number", "boolean"} /\ v.n = 0

\* String(v), the coercion the platform applies to a non-string selector
ToStr(v) ==
  CASE v.t = "string" -> v.s
    [] v.t = "number" -> <<ToString(v.n)>>
    [] v.t = "boolean" -> IF v.n = 1 THEN <<"true">> ELSE <<"false">>
    [] v.t = "null" -> <<"null">>
    [] v.t = "undefined" -> <<"undefined">>
    [] v.t = "node" -> IF v.n = DOC THEN <<"[object HTMLDocument]">>
                       ELSE IF v.n = FRAG THEN <<"[object DocumentFragment]">>
                       ELSE <<"[object HTMLElement]">>
    [] v.t = "function" -> <<"() => ...">>

\* s.includes(c)
Includes(s, c) == \E i \in 1..Len(s) : s[i] = c

\* s.split(c): the parts of s between the occurrences of c
RECURSIVE Split(_, _)
Split(s, c) ==
  IF ~Includes(s, c) THEN <<s>>
  ELSE LET i == CHOOSE k \in 1..Len(s) : s[k] = c /\ \A j \in 1..(k - 1) : s[j] # c
       IN <<SubSeq(s, 1, i - 1)>> \o Split(SubSeq(s, i + 1, Len(s)), c)

\* parts.join('#')
RECURSIVE Join(_)
Join(parts) ==
  IF Len(parts) = 1 THEN parts[1]
  ELSE parts[1] \o <<"#">> \o Join(Tail(parts))

----------------------------------------------------------------------------
(* The platform's document interfaces *)

\* selector instanceof HTMLElement
IsHTMLElement(n) == n \in Nodes \ {DOC, FRAG}

IsIdent(s) == s # NoStr /\ \A i \in 1..Len(s) : s[i] \in IdentAtoms

\* a class selector: the dot atom followed by one class name
IsClassSelector(s) == Len(s) = 2 /\ s[1] = "." /\ IsIdent(<<s[2]>>)

\* the selectors the platform parses: .class, tag, #id, tag#id, and further
\* #id parts; any other string makes querySelector raise SyntaxError
ValidSelector(s) ==
  \/ IsClassSelector(s)
  \/ LET parts == Split(s, "#")
     IN /\ parts[1] = NoStr \/ IsIdent(parts[1])
        /\ Len(parts) = 1 => parts[1] # NoStr
        /\ \A i \in 2..Len(parts) : IsIdent(parts[i])

\* whether element n matches the selector whose '#'-separated parts are given
Matches(n, parts) ==
  /\ parts[1] = NoStr \/ tagName[n] = parts[1]
  /\ \A i \in 2..Len(parts) : elemId[n] = parts[i]

\* the nodes of a subtree in document order
RECURSIVE Subtree(_), Forest(_)
Subtree(n) == <<n>> \o Forest(childNodes[n])
Forest(ns) == IF ns = <<>> THEN <<>> ELSE Subtree(Head(ns)) \o Forest(Tail(ns))

\* document.querySelectorAll(s), for a valid selector: the elements below the
\* document that match, in document order
QuerySelectorAll(s) ==
  IF IsClassSelector(s)
    THEN SelectSeq(Tail(Subtree(DOC)), LAMBDA n : s[2] \in classList[n])
  ELSE LET parts == Split(s, "#")
       IN SelectSeq(Tail(Subtree(DOC)), LAMBDA n : Matches(n, parts))

\* a lookup that also finds elements that are not in the document
QuerySelectorDetached(s) ==
  LET hits == {n \in created : Matches(n, Split(s, "#"))}
  IN IF hits = {} THEN NoNode ELSE CHOOSE n \in hits : \A m \in hits : n <= m

\* document.querySelector(s), for a valid selector: the first match or null
QuerySelector(s) ==
  LET found == QuerySelectorAll(s)
  IN IF found = <<>> THEN NoNode ELSE Head(found)

----------------------------------------------------------------------------
(* errors.ts *)

Err(name, message) == [name |-> name, message |-> message]
NoErr == Err("", NoStr)

ElementNotFoundError(selector) ==
  Err("ElementNotFoundError",
      <<"Element '">> \o selector
      \o <<"' not found. Make sure the element exists in the DOM before trying to select it.">>)

InvalidReturnValueError(expectedType) ==
  Err("InvalidReturnValueError", <<"Function must return ">> \o expectedType)

\* JSON.stringify(v) inside a template literal
JsonStringify(v) ==
  CASE v.t = "string" -> <<"\"">> \o v.s \o <<"\"">>
    [] v.t = "node" -> <<"{}">>
    [] v.t = "function" -> <<"undefined">>
    [] OTHER -> ToStr(v)

InvalidSelectorError(selector) ==
  Err("InvalidSelectorError",
      <<"Invalid selector provided: ">> \o JsonStringify(selector)
      \o <<". Expected a string, HTML element, or function.">>)

IdInfo(elementId) ==
  IF elementId = NoStr THEN NoStr ELSE <<" (element id: '">> \o elementId \o <<"')">>

InvalidElementTypeError(method, expectedType, actualType, elementId) ==
  Err("InvalidElementTypeError",
      <<"Cannot call '", method, "()' on '">> \o actualType \o <<"' element">>
      \o IdInfo(elementId)
      \o <<". This method requires a '", expectedType, "' element.">>)

NoParentNodeError(operation, elementId) ==
  Err("NoParentNodeError",
      <<"Cannot ", operation, ": element has no parent node">> \o IdInfo(elementId)
      \o <<". The element may have been removed from the DOM.">>)

\* an exception the platform raises
DOMException(name) == Err(name, NoStr)

----------------------------------------------------------------------------
(* The platform's form elements *)

\* element instanceof HTMLInputElement, HTMLSelectElement, ...
IsKind(n, tag) == n \in Nodes /\ tagName[n] = <<tag>>

NaN == -1
Numbers == {0, 1, 123}

\* Number(s): the number a string converts to, or NaN
ToNumber(s) ==
  IF s = NoStr THEN 0
  ELSE IF \E k \in Numbers : s = <<ToString(k)>>
    THEN CHOOSE k \in Numbers : s = <<ToString(k)>>
  ELSE NaN

Assigned(err, v) == [err |-> err, v |-> v]

\* element.value = s: what the element's value holds afterwards, or the error
\* the assignment raises.  An input, a textarea and an option keep the string;
\* a select keeps it only when one of its options has that value, and is left
\* with no option selected otherwise; a progress converts it to a number and
\* raises TypeError when that is not finite.
SetValueIn(values, n, s) ==
  IF IsKind(n, "select")
    THEN IF \E i \in 1..Len(childNodes[n]) :
               IsKind(childNodes[n][i], "option") /\ values[childNodes[n][i]] = Str(s)
           THEN Assigned(NoErr, Str(s))
           ELSE Assigned(NoErr, Str(NoStr))
  ELSE IF IsKind(n, "progress")
    THEN IF ToNumber(s) = NaN THEN Assigned(Err("TypeError", NoStr), values[n])
         ELSE Assigned(NoErr, Num(ToNumber(s)))
  ELSE Assigned(NoErr, Str(s))

SetValue(n, s) == SetValueIn(value, n, s)

\* element.value read: a progress answers a number, at most its max of 1
GetValue(n) ==
  IF IsKind(n, "progress") THEN Num(Min(value[n].n, 1)) ELSE value[n]

----------------------------------------------------------------------------
(* Tree mutation by the platform *)

Without(ns, c) == SelectSeq(ns, LAMBDA x : x # c)

RECURSIVE InclusiveAncestors(_)
InclusiveAncestors(n) ==
  IF parentNode[n] = NoNode THEN {n} ELSE {n} \cup InclusiveAncestors(parentNode[n])

\* whether parent.appendChild(child) passes the platform's validity check;
\* otherwise it raises HierarchyRequestError and changes nothing
CanAppend(parent, child) ==
  /\ child \notin InclusiveAncestors(parent)
  /\ parent = DOC => childNodes[DOC] = <<>>

\* an insertion that puts the child before the children the parent has
PrependChild(parent, child) ==
  [pn |-> [parentNode EXCEPT ![child] = parent],
   cn |-> [n \in Nodes |-> IF n = parent THEN <<child>> \o Without(childNodes[n], child)
                           ELSE Without(childNodes[n], child)]]

\* the tree after parent.appendChild(child): child leaves its old parent
AppendChild(parent, child) ==
  [pn |-> [parentNode EXCEPT ![child] = parent],
   cn |-> [n \in Nodes |-> IF n = parent THEN Without(childNodes[n], child) \o <<child>>
                           ELSE Without(childNodes[n], child)]]

\* ns with the entry old replaced by the entries of news
Replaced(ns, old, news) ==
  IF \E i \in 1..Len(ns) : ns[i] = old
    THEN LET i == CHOOSE k \in 1..Len(ns) : ns[k] = old
         IN SubSeq(ns, 1, i - 1) \o news \o SubSeq(ns, i + 1, Len(ns))
  ELSE ns

\* the tree after parent.removeChild(child)
RemoveChild(parent, child) ==
  [pn |-> [parentNode EXCEPT ![child] = NoNode],
   cn |-> [childNodes EXCEPT ![parent] = Without(childNodes[parent], child)]]

\* the tree after parent.replaceChild(newChild, oldChild), and after the
\* assignment of oldChild.outerHTML, for nodes news that have no parent yet
ReplaceChild(parent, news, oldChild) ==
  [pn |-> [n \in Nodes |-> IF n = oldChild THEN NoNode
                            ELSE IF \E i \in 1..Len(news) : news[i] = n THEN parent
                            ELSE parentNode[n]],
   cn |-> [childNodes EXCEPT ![parent] = Replaced(childNodes[parent], oldChild, news)]]

\* element.parentElement: the parent when it is an element
ParentElement(n) == IF parentNode[n] \in {DOC, FRAG} THEN NoNode ELSE parentNode[n]

\* the node document.createElement returns next
NextNode == CHOOSE n \in Pool \ created : \A m \in Pool \ created : n <= m

----------------------------------------------------------------------------
(* Inputs *)

PartChoices == Names \cup {NoStr}
TestIds == {NoStr, <<"a">>}
Strings == {Join(p) : p \in UNION {[1..k -> PartChoices] : k \in 1..MaxParts}}
Selectors == Strings \cup {<<"html">>, <<"body">>}
Specifiers == Names \cup {tag \o <<"#">> \o id : tag \in Names, id \in TestIds \ {NoStr}}
Plain ==
  {Str(s) : s \in Selectors}
  \cup {Num(123), Num(0), Bool(TRUE), Bool(FALSE), Null, Undefined}
  \cup {NodeRef(n) : n \in Live}
Inputs == Plain \cup {Fn(r) : r \in Plain}

----------------------------------------------------------------------------
(* El *)

Outcome(err, element, calls, lookups) ==
  [err |-> err, element |-> element, calls |-> calls, lookups |-> lookups]

\* document.querySelector(text) followed by the null check
Lookup(text, calls) ==
  IF ~ValidSelector(text) THEN Outcome(DOMException("SyntaxError"), NoNode, calls, 1)
  ELSE LET element == QuerySelector(text)
       IN IF element = NoNode THEN Outcome(ElementNotFoundError(text), NoNode, calls, 1)
          ELSE Outcome(NoErr, element, calls, 1)

\* a type guard that accepts only elements attached to a parent
IsAElementAttached(selector) ==
  selector.t = "node" /\ IsHTMLElement(selector.n) /\ parentNode[selector.n] # NoNode

IsAElement(selector) == selector.t = "node" /\ IsHTMLElement(selector.n)

\* new El(selector): the error thrown or the element adopted, the number of
\* times a function argument was called and the number of document lookups
ElConstructor(selector) ==
  IF IsAElement(selector) THEN Outcome(NoErr, selector.n, 0, 0)
  ELSE IF selector.t = "function" /\ Falsy(Ret(selector))
    THEN Outcome(InvalidReturnValueError(<<"an element or selector string">>), NoNode, 1, 0)
  ELSE IF selector.t = "function" /\ IsAElement(Ret(selector))
    THEN Outcome(NoErr, Ret(selector).n, 1, 0)
  ELSE IF selector.t = "function" /\ Ret(selector).t = "string"
    THEN Lookup(Ret(selector).s, 1)
  ELSE Lookup(ToStr(selector), IF selector.t = "function" THEN 1 ELSE 0)

Last(op, arg, r, ret) ==
  [op |-> op, arg |-> arg, err |-> r.err, calls |-> r.calls, lookups |-> r.lookups,
   ret |-> ret]

NewEl(selector) ==
  \E r \in {ElConstructor(selector)} :
     /\ el' = r.element
     /\ last' = Last("El", selector, r, IF r.err = NoErr THEN "new" ELSE "none")
     /\ UNCHANGED <<tree, mote, all, attrs, generated, more>>

\* El.id(idForEl) called with a string: the id map afterwards (a falsy
\* argument takes the get branch and sets nothing)
IdSet(n, idForEl) ==
  IF idForEl = NoStr THEN elemId ELSE [elemId EXCEPT ![n] = idForEl]

----------------------------------------------------------------------------
(* Mote *)

IsIDdElementName(selector) ==
  Includes(selector, "#") /\ Len(Split(selector, "#")) = 2

\* whether document.createElement accepts the tag name; otherwise it raises
\* InvalidCharacterError
IsName(tag) == IsIdent(tag)

MoteParts(err, tag, id, idd) == [err |-> err, tag |-> tag, id |-> id, idd |-> idd]

\* a constructor that reads the id from the first part of the specifier
MoteConstructorFirstPart(selector) ==
  IF selector.t # "string"
    THEN MoteParts(Err("Error", <<"[Mote] ~> |ERROR| Selector must be a string">>),
                   NoStr, NoStr, FALSE)
  ELSE IF IsIDdElementName(selector.s)
    THEN LET parts == Split(selector.s, "#")
         IN MoteParts(IF IsName(parts[1]) THEN NoErr ELSE DOMException("InvalidCharacterError"),
                      parts[1], parts[1], TRUE)
  ELSE MoteParts(IF IsName(selector.s) THEN NoErr ELSE DOMException("InvalidCharacterError"),
                 selector.s, NoStr, FALSE)

\* new Mote(selector) up to the call of super: the error thrown, or the tag
\* name passed to document.createElement and the id passed to this.id
MoteConstructor(selector) ==
  IF selector.t # "string"
    THEN MoteParts(Err("Error", <<"[Mote] ~> |ERROR| Selector must be a string">>),
                   NoStr, NoStr, FALSE)
  ELSE IF IsIDdElementName(selector.s)
    THEN LET parts == Split(selector.s, "#")
         IN MoteParts(IF IsName(parts[1]) THEN NoErr ELSE DOMException("InvalidCharacterError"),
                      parts[1], parts[2], TRUE)
  ELSE MoteParts(IF IsName(selector.s) THEN NoErr ELSE DOMException("InvalidCharacterError"),
                 selector.s, NoStr, FALSE)

NewMote(selector) ==
  \E m \in {MoteConstructor(selector)} :
     IF m.err # NoErr
       THEN /\ mote' = NoNode
            /\ last' = Last("Mote", selector, Outcome(m.err, NoNode, 0, 0), "none")
            /\ UNCHANGED <<tree, el, all, attrs, generated, more>>
       ELSE /\ Cardinality(created) < MaxMotes
            /\ \E n \in {NextNode} :
                 \E r \in {ElConstructor(Fn(NodeRef(n)))} :
                    /\ created' = created \cup {n}
                    /\ tagName' = [tagName EXCEPT ![n] = m.tag]
                    /\ elemId' = IF m.idd THEN IdSet(r.element, m.id) ELSE elemId
                    /\ mote' = r.element
                    /\ generated' = IF m.idd THEN generated ELSE generated \cup {n}
                    /\ last' = Last("Mote", selector, r, "new")
            /\ UNCHANGED <<parentNode, childNodes, el, all, attrs, more>>

\* the outcome of an attachment: the error thrown and the node appended to
Attach(err, target) == [err |-> err, target |-> target]

\* Mote.appendTo(selector) up to the appendChild call, for a wrapper over an
\* element with the given tag
AppendToTargetFor(tag, selector) ==
  IF selector.t = "node" THEN Attach(NoErr, selector.n)
  ELSE IF ~ValidSelector(ToStr(selector)) THEN Attach(DOMException("SyntaxError"), NoNode)
  ELSE LET target == QuerySelector(ToStr(selector))
       IN IF target = NoNode
            THEN Attach(Err("Error", <<"[Mote] ~> ">> \o tag
                                      \o <<" |ERROR| Could not find element with selector ">>
                                      \o ToStr(selector)), NoNode)
          ELSE Attach(NoErr, target)

AppendToTarget(selector) == AppendToTargetFor(tagName[mote], selector)

\* target.appendChild(this.element) and the return of this
AppendMote(op, arg, a) ==
  IF a.err # NoErr
    THEN /\ last' = Last(op, arg, Outcome(a.err, NoNode, 0, 0), "none")
         /\ UNCHANGED <<parentNode, childNodes>>
  ELSE IF ~CanAppend(a.target, mote)
    THEN /\ last' = Last(op, arg, Outcome(DOMException("HierarchyRequestError"), a.target, 0, 0), "none")
         /\ UNCHANGED <<parentNode, childNodes>>
  ELSE \E t \in {AppendChild(a.target, mote)} :
         /\ parentNode' = t.pn
         /\ childNodes' = t.cn
         /\ last' = Last(op, arg, Outcome(NoErr, a.target, 0, 0), "this")

AppendTo(selector) ==
  /\ mote # NoNode
  /\ \E a \in {AppendToTarget(selector)} : AppendMote("appendTo", selector, a)
  /\ UNCHANGED <<created, tagName, elemId, el, mote, all, attrs, generated, more>>

AppendToBody ==
  /\ mote # NoNode
  /\ AppendMote("appendToBody", Undefined, Attach(NoErr, BODY))
  /\ UNCHANGED <<created, tagName, elemId, el, mote, all, attrs, generated, more>>

AppendToHead ==
  /\ mote # NoNode
  /\ AppendMote("appendToHead", Undefined, Attach(NoErr, HEAD))
  /\ UNCHANGED <<created, tagName, elemId, el, mote, all, attrs, generated, more>>

AppendToRoot ==
  /\ mote # NoNode
  /\ AppendMote("appendToRoot", Undefined, Attach(NoErr, HTML))
  /\ UNCHANGED <<created, tagName, elemId, el, mote, all, attrs, generated, more>>

\* what a callback given to appendWithin does when it is called
Callbacks == {"returns", "returns a value", "throws", "resolves", "rejects"}

\* how the promise Promise.resolve(cb(...)) settles
Settles(cb) ==
  CASE cb = "returns a value" -> "value"
    [] cb = "rejects" -> "rejected"
    [] OTHER -> "undefined"

\* an argument that leaves out the '#'
TargetIDBare(n) == elemId[n]

\* `#${this.element.id}`
TargetID(n) == <<"#">> \o elemId[n]

\* a call that registers the reactions and returns before the callback runs
WithinStepsDeferred(cb) == <<"then", "catch", "return", "callback">>

\* the steps of appendWithin(cb) in the order the statement takes them: the
\* argument of Promise.resolve is evaluated first, which calls cb; an exception
\* of cb leaves the method there
WithinSteps(cb) ==
  IF cb = "throws" THEN <<"callback", "throw">>
  ELSE <<"callback", "then", "catch", "return">>

\* Mote.appendWithin(cb)
AppendWithin(cb) ==
  /\ mote # NoNode
  /\ Len(microtasks) < MaxPending
  /\ invoked' = <<Str(TargetID(mote))>>
  /\ steps' = WithinSteps(cb)
  /\ console' = <<>>
  /\ IF cb = "throws"
       THEN /\ last' = Last("appendWithin", Str(<<cb>>),
                            Outcome(Err("Error", <<"thrown by cb">>), mote, 1, 0), "none")
            /\ UNCHANGED microtasks
       ELSE /\ last' = Last("appendWithin", Str(<<cb>>), Outcome(NoErr, mote, 1, 0), "undefined")
            /\ microtasks' = Append(microtasks, Settles(cb))
  /\ UNCHANGED <<tree, el, mote, all, attrs, generated, form, returned, fade>>

\* the promise at position i settles and its reactions run: then logs a value
\* that is not undefined, catch logs a rejection
Reaction(i) ==
  /\ i \in 1..Len(microtasks)
  /\ microtasks' = SubSeq(microtasks, 1, i - 1) \o SubSeq(microtasks, i + 1, Len(microtasks))
  /\ console' = CASE microtasks[i] = "value" -> <<"debug">>
                   [] microtasks[i] = "rejected" -> <<"error">>
                   [] OTHER -> <<>>
  /\ steps' = IF microtasks[i] = "rejected" THEN <<"catch">> ELSE <<"then">>
  /\ invoked' = <<>>
  /\ last' = Last("reaction", Str(<<microtasks[i]>>), Outcome(NoErr, NoNode, 0, 0), "none")
  /\ UNCHANGED <<tree, el, mote, all, attrs, generated, form, returned, fade>>

\* the argument list of a call of the factory, as text
FactoryArgs(tag, appendTo, fromWithin) ==
  Str(tag \o <<", ">> \o ToStr(appendTo) \o <<", ", fromWithin>>)

\* mote(tagName, appendTo, fromWithin): new Mote, appendTo, and appendWithin
\* when a callback is given ("none" when it is not).  An element made by a
\* call that throws before it is attached is dropped with the exception.
MoteFactory(tag, appendTo, fromWithin) ==
  \E m \in {MoteConstructor(Str(tag))} :
    IF m.err # NoErr
      THEN /\ mote' = NoNode
           /\ last' = Last("mote", FactoryArgs(tag, appendTo, fromWithin), Outcome(m.err, NoNode, 0, 0), "none")
           /\ steps' = <<"new", "throw">>
           /\ invoked' = <<>>
           /\ console' = <<>>
           /\ UNCHANGED <<tree, el, all, attrs, generated, form, returned, fade, microtasks>>
      ELSE /\ Cardinality(created) < MaxMotes
           /\ Len(microtasks) < MaxPending
           /\ \E n \in {NextNode}, a \in {AppendToTargetFor(m.tag, appendTo)} :
                IF a.err # NoErr \/ ~CanAppend(a.target, n)
                  THEN /\ mote' = NoNode
                       /\ last' = Last("mote", FactoryArgs(tag, appendTo, fromWithin),
                                       Outcome(IF a.err # NoErr THEN a.err
                                               ELSE DOMException("HierarchyRequestError"),
                                               NoNode, 0, 0), "none")
                       /\ steps' = <<"new", "appendTo", "throw">>
                       /\ invoked' = <<>>
                       /\ UNCHANGED <<tree, generated, microtasks>>
                  ELSE /\ created' = created \cup {n}
                       /\ tagName' = [tagName EXCEPT ![n] = m.tag]
                       /\ elemId' = IF m.idd THEN IdSet(n, m.id) ELSE elemId
                       /\ generated' = IF m.idd THEN generated ELSE generated \cup {n}
                       /\ \E t \in {AppendChild(a.target, n)} :
                            parentNode' = t.pn /\ childNodes' = t.cn
                       /\ IF fromWithin = "none"
                            THEN /\ mote' = n
                                 /\ last' = Last("mote", FactoryArgs(tag, appendTo, fromWithin), Outcome(NoErr, n, 0, 0), "new")
                                 /\ steps' = <<"new", "appendTo", "return">>
                                 /\ invoked' = <<>>
                                 /\ UNCHANGED microtasks
                          ELSE /\ invoked' = <<Str(TargetID(n)')>>
                               /\ steps' = <<"new", "appendTo">> \o WithinSteps(fromWithin)
                               /\ IF fromWithin = "throws"
                                    THEN /\ mote' = NoNode
                                         /\ last' = Last("mote", FactoryArgs(tag, appendTo, fromWithin),
                                                         Outcome(Err("Error", <<"thrown by cb">>),
                                                                 n, 1, 0), "none")
                                         /\ UNCHANGED microtasks
                                    ELSE /\ mote' = n
                                         /\ last' = Last("mote", FactoryArgs(tag, appendTo, fromWithin), Outcome(NoErr, n, 1, 0),
                                                         "new")
                                         /\ microtasks' = Append(microtasks, Settles(fromWithin))
           /\ console' = <<>>
           /\ UNCHANGED <<el, all, attrs, form, returned, fade>>

----------------------------------------------------------------------------
(* All *)

\* a constructor that rejects an empty match the way El does
AllConstructorNonEmpty(tempSelector) ==
  IF ~ValidSelector(ToStr(tempSelector))
    THEN [err |-> DOMException("SyntaxError"), elements |-> <<>>]
  ELSE IF QuerySelectorAll(ToStr(tempSelector)) = <<>>
    THEN [err |-> ElementNotFoundError(ToStr(tempSelector)), elements |-> <<>>]
  ELSE [err |-> NoErr, elements |-> QuerySelectorAll(ToStr(tempSelector))]

\* new All(tempSelector): the error thrown or the collection taken
AllConstructor(tempSelector) ==
  IF ~ValidSelector(ToStr(tempSelector))
    THEN [err |-> DOMException("SyntaxError"), elements |-> <<>>]
  ELSE [err |-> NoErr, elements |-> QuerySelectorAll(ToStr(tempSelector))]

NewAll(tempSelector) ==
  \E r \in {AllConstructor(tempSelector)} :
     /\ allEls' = r.elements
     /\ allMade' = (r.err = NoErr)
     /\ last' = Last("All", tempSelector, Outcome(r.err, NoNode, 0, 1),
                     IF r.err = NoErr THEN "new" ELSE "none")
     /\ UNCHANGED <<tree, el, mote, generated, more, attrs>>

\* elements.forEach((element, index) => callback(element, index)): the calls made
\* from position index on, after the calls in acc
RECURSIVE ForEachOneBased(_, _, _)
ForEachOneBased(elements, index, acc) ==
  IF index >= Len(elements) THEN acc
  ELSE ForEachOneBased(elements, index + 1, Append(acc, <<elements[index + 1], index + 1>>))

RECURSIVE ForEach(_, _, _)
ForEach(elements, index, acc) ==
  IF index >= Len(elements) THEN acc
  ELSE ForEach(elements, index + 1, Append(acc, <<elements[index + 1], index>>))

\* All.each(callback), for a callback that records its arguments
Each ==
  /\ allMade
  /\ invoked' = ForEach(allEls, 0, <<>>)
  /\ last' = Last("each", Undefined, Outcome(NoErr, NoNode, Len(allEls), 0), "this")
  /\ UNCHANGED <<tree, el, mote, all, attrs, generated, form, returned, fade, within>>

\* the instanceof chain of All.val
IsAllValKind(n) ==
  IsKind(n, "input") \/ IsKind(n, "select") \/ IsKind(n, "textarea") \/ IsKind(n, "option")

\* the forEach of All.val from position index on: the values afterwards
RECURSIVE AllValFrom(_, _, _, _)
AllValFrom(elements, index, newVal, values) ==
  IF index >= Len(elements) THEN values
  ELSE LET element == elements[index + 1]
       IN AllValFrom(elements, index + 1, newVal,
            IF IsAllValKind(element) /\ newVal.t # "undefined"
              THEN [values EXCEPT ![element] = SetValueIn(values, element, ToStr(newVal)).v]
              ELSE values)

\* All.val(newVal)
AllVal(newVal) ==
  /\ allMade
  /\ value' = AllValFrom(allEls, 0, newVal, value)
  /\ returned' = Undefined
  /\ last' = Last("allVal", newVal, Outcome(NoErr, NoNode, 0, 0), "this")
  /\ UNCHANGED <<tree, el, mote, all, attrs, generated, invoked, inputType, checked, srcOf, altOf, fade, within>>

\* a call of fadeIn or fadeOut: the elements animated, the state of each
\* animation, and the state of the promise the call returned
Batch(op, elements, anims, promise) ==
  [op |-> op, elements |-> elements, anims |-> anims, promise |-> promise]
NoBatch == Batch("none", <<>>, <<>>, "none")

\* a combinator that is satisfied by the first animation that finishes
AnyFinished(anims) == \E i \in 1..Len(anims) : anims[i] = "finished"

\* Promise.all(animations): fulfilled once every promise of the list is
AllFinished(anims) == \A i \in 1..Len(anims) : anims[i] = "finished"

\* All.fadeOut(duration): an animation starts on every element
AllFadeOut ==
  /\ allMade
  /\ batch.promise # "pending"
  /\ batch' = Batch("fadeOut", allEls, [i \in 1..Len(allEls) |-> "running"], "pending")
  /\ last' = Last("fadeOut", Undefined, Outcome(NoErr, NoNode, 0, 0), "promise")
  /\ UNCHANGED <<tree, el, mote, all, attrs, generated, invoked, form, returned, display, within>>

\* All.fadeIn(duration): display is cleared and an animation starts on every
\* element
AllFadeIn ==
  /\ allMade
  /\ batch.promise # "pending"
  /\ display' = [n \in Nodes |-> IF \E i \in 1..Len(allEls) : allEls[i] = n THEN NoStr
                                  ELSE display[n]]
  /\ batch' = Batch("fadeIn", allEls, [i \in 1..Len(allEls) |-> "running"], "pending")
  /\ last' = Last("fadeIn", Undefined, Outcome(NoErr, NoNode, 0, 0), "promise")
  /\ UNCHANGED <<tree, el, mote, all, attrs, generated, invoked, form, returned, within>>

\* the platform finishes the animation of element i; the reaction to
\* animation.finished runs with it, which for fadeOut sets display to none
Finished(i) ==
  /\ i \in 1..Len(batch.anims)
  /\ batch.anims[i] = "running"
  /\ batch' = [batch EXCEPT !.anims[i] = "finished"]
  /\ display' = IF batch.op = "fadeOut" THEN [display EXCEPT ![batch.elements[i]] = <<"none">>]
                 ELSE display
  /\ last' = Last("finished", Num(i - 1), Outcome(NoErr, batch.elements[i], 0, 0), "none")
  /\ UNCHANGED <<tree, el, mote, all, attrs, generated, invoked, form, returned, within>>

\* the animation of element i is cancelled: its finished promise rejects, and
\* with it the promise of the call
Cancelled(i) ==
  /\ i \in 1..Len(batch.anims)
  /\ batch.anims[i] = "running"
  /\ batch.promise = "pending"
  /\ batch' = [batch EXCEPT !.anims[i] = "cancelled", !.promise = "rejected"]
  /\ last' = Last("cancelled", Num(i - 1), Outcome(NoErr, batch.elements[i], 0, 0), "none")
  /\ UNCHANGED <<tree, el, mote, all, attrs, generated, invoked, form, returned, display, within>>

\* Promise.all(animations).then(() => this) is fulfilled
Fulfilled ==
  /\ batch.promise = "pending"
  /\ AllFinished(batch.anims)
  /\ batch' = [batch EXCEPT !.promise = "fulfilled"]
  /\ last' = Last("resolved", Undefined, Outcome(NoErr, NoNode, 0, 0), "this")
  /\ UNCHANGED <<tree, el, mote, all, attrs, generated, invoked, form, returned, display, within>>

----------------------------------------------------------------------------
(* El: the operations on form elements and images *)

\* the instanceof chain of El.val
IsValKind(n) ==
  \/ IsKind(n, "input") \/ IsKind(n, "select") \/ IsKind(n, "textarea")
  \/ IsKind(n, "option") \/ IsKind(n, "progress")

\* El.val(newVal)
ElVal(newVal) ==
  /\ el # NoNode
  /\ IF ~IsValKind(el)
       THEN /\ last' = Last("val", newVal,
                            Outcome(InvalidElementTypeError("val", "input, select, textarea, or progress",
                                                            tagName[el], elemId[el]), el, 0, 0),
                            "none")
            /\ returned' = Undefined
            /\ UNCHANGED value
     ELSE IF newVal.t \in {"undefined", "null"}
       THEN /\ returned' = GetValue(el)
            /\ last' = Last("val", newVal, Outcome(NoErr, el, 0, 0), "value")
            /\ UNCHANGED value
     ELSE \E a \in {SetValue(el, ToStr(newVal))} :
            /\ value' = [value EXCEPT ![el] = a.v]
            /\ returned' = Undefined
            /\ last' = Last("val", newVal, Outcome(a.err, el, 0, 0),
                            IF a.err = NoErr THEN "this" ELSE "none")
  /\ UNCHANGED <<tree, el, mote, all, attrs, generated, invoked, inputType, checked, srcOf, altOf, fade, within>>

\* an instanceof test that accepts only inputs of type checkbox
IsCheckableCheckbox(n) == IsKind(n, "input") /\ inputType[n] = <<"checkbox">>

\* this.element instanceof HTMLInputElement
IsCheckable(n) == IsKind(n, "input")

\* El.check(trueOrFalse)
Check(trueOrFalse) ==
  /\ el # NoNode
  /\ IF IsCheckable(el)
       THEN /\ checked' = [checked EXCEPT ![el] = trueOrFalse]
            /\ last' = Last("check", Bool(trueOrFalse), Outcome(NoErr, el, 0, 0), "this")
       ELSE /\ last' = Last("check", Bool(trueOrFalse),
                            Outcome(InvalidElementTypeError("check", "input", tagName[el],
                                                            elemId[el]), el, 0, 0), "none")
            /\ UNCHANGED checked
  /\ returned' = Undefined
  /\ UNCHANGED <<tree, el, mote, all, attrs, generated, invoked, inputType, value, srcOf, altOf, fade, within>>

\* El.checked()
Checked ==
  /\ el # NoNode
  /\ IF IsCheckable(el)
       THEN /\ returned' = Bool(checked[el])
            /\ last' = Last("checked", Undefined, Outcome(NoErr, el, 0, 0), "value")
       ELSE /\ returned' = Undefined
            /\ last' = Last("checked", Undefined,
                            Outcome(InvalidElementTypeError("checked", "input", tagName[el],
                                                            elemId[el]), el, 0, 0), "none")
  /\ UNCHANGED <<tree, el, mote, all, attrs, generated, invoked, form, fade, within>>

\* this.element instanceof HTMLImageElement
IsImage(n) == IsKind(n, "img")

\* El.src(srcString)
Src(srcString) ==
  /\ el # NoNode
  /\ IF IsImage(el)
       THEN /\ srcOf' = [srcOf EXCEPT ![el] = srcString]
            /\ last' = Last("src", Str(srcString), Outcome(NoErr, el, 0, 0), "this")
       ELSE /\ last' = Last("src", Str(srcString),
                            Outcome(InvalidElementTypeError("src", "img", tagName[el],
                                                            elemId[el]), el, 0, 0), "none")
            /\ UNCHANGED srcOf
  /\ returned' = Undefined
  /\ UNCHANGED <<tree, el, mote, all, attrs, generated, invoked, inputType, value, checked, altOf, fade, within>>

\* El.alt(altString)
Alt(altString) ==
  /\ el # NoNode
  /\ IF IsImage(el)
       THEN /\ altOf' = [altOf EXCEPT ![el] = altString]
            /\ last' = Last("alt", Str(altString), Outcome(NoErr, el, 0, 0), "this")
       ELSE /\ last' = Last("alt", Str(altString),
                            Outcome(InvalidElementTypeError("alt", "img", tagName[el],
                                                            elemId[el]), el, 0, 0), "none")
            /\ UNCHANGED altOf
  /\ returned' = Undefined
  /\ UNCHANGED <<tree, el, mote, all, attrs, generated, invoked, inputType, value, checked, srcOf, fade, within>>

----------------------------------------------------------------------------
(* El: the operations that need a parent *)

\* a removal whose error names the operation of wrap and leaves out the id
RemoveMisreported ==
  /\ el # NoNode
  /\ IF parentNode[el] = NoNode
       THEN /\ last' = Last("remove", Undefined,
                            Outcome(NoParentNodeError("wrap element", NoStr), el, 0, 0), "none")
            /\ UNCHANGED <<parentNode, childNodes>>
       ELSE \E t \in {RemoveChild(parentNode[el], el)} :
              /\ parentNode' = t.pn
              /\ childNodes' = t.cn
              /\ last' = Last("remove", Undefined, Outcome(NoErr, el, 0, 0), "this")
  /\ returned' = Undefined
  /\ UNCHANGED <<created, tagName, elemId, el, mote, all, attrs, generated, invoked, form, fade, within>>

\* El.remove()
Remove ==
  /\ el # NoNode
  /\ IF parentNode[el] = NoNode
       THEN /\ last' = Last("remove", Undefined,
                            Outcome(NoParentNodeError("remove element", elemId[el]), el, 0, 0), "none")
            /\ UNCHANGED <<parentNode, childNodes>>
       ELSE \E t \in {RemoveChild(parentNode[el], el)} :
              /\ parentNode' = t.pn
              /\ childNodes' = t.cn
              /\ last' = Last("remove", Undefined, Outcome(NoErr, el, 0, 0), "this")
  /\ returned' = Undefined
  /\ UNCHANGED <<created, tagName, elemId, el, mote, all, attrs, generated, invoked, form, fade, within>>

\* El.wrap(classForDiv).  The div made before the parent check is dropped
\* with the exception, so a failed call leaves no node behind.
Wrap ==
  /\ el # NoNode
  /\ IF parentNode[el] = NoNode
       THEN /\ last' = Last("wrap", Undefined,
                            Outcome(NoParentNodeError("wrap element", elemId[el]), el, 0, 0), "none")
            /\ UNCHANGED tree
       ELSE /\ Cardinality(created) < MaxPool
            /\ \E wrapper \in {NextNode} :
                 /\ created' = created \cup {wrapper}
                 /\ tagName' = [tagName EXCEPT ![wrapper] = <<"div">>]
                 /\ elemId' = [elemId EXCEPT ![wrapper] = NoStr]
                 /\ parentNode' = [parentNode EXCEPT ![wrapper] = parentNode[el], ![el] = wrapper]
                 /\ childNodes' = [childNodes EXCEPT
                                     ![parentNode[el]] = Replaced(@, el, <<wrapper>>),
                                     ![wrapper] = <<el>>]
            /\ last' = Last("wrap", Undefined, Outcome(NoErr, el, 0, 0), "this")
  /\ returned' = Undefined
  /\ UNCHANGED <<el, mote, all, attrs, generated, invoked, form, fade, within>>

\* El.replaceWith(string): this.element.outerHTML = string, for markup that
\* holds the elements with the given tags.  The platform returns at once when
\* the element has no parent and refuses when the parent is the document.
ReplaceWith(tags) ==
  /\ el # NoNode
  /\ IF parentNode[el] = NoNode
       THEN /\ last' = Last("replaceWith", Str(tags), Outcome(NoErr, el, 0, 0), "this")
            /\ UNCHANGED tree
     ELSE IF parentNode[el] = DOC
       THEN /\ last' = Last("replaceWith", Str(tags),
                            Outcome(DOMException("NoModificationAllowedError"), el, 0, 0), "none")
            /\ UNCHANGED tree
     ELSE /\ Cardinality(created) + Len(tags) <= MaxPool
          /\ \E news \in {IF tags = <<>> THEN <<>> ELSE <<NextNode>>} :
               \E t \in {ReplaceChild(parentNode[el], news, el)} :
                 /\ created' = created \cup {news[i] : i \in 1..Len(news)}
                 /\ tagName' = [n \in Nodes |-> IF news = <<n>> THEN tags ELSE tagName[n]]
                 /\ elemId' = [n \in Nodes |-> IF news = <<n>> THEN NoStr ELSE elemId[n]]
                 /\ parentNode' = t.pn
                 /\ childNodes' = t.cn
          /\ last' = Last("replaceWith", Str(tags), Outcome(NoErr, el, 0, 0), "this")
  /\ returned' = Undefined
  /\ UNCHANGED <<el, mote, all, attrs, generated, invoked, form, fade, within>>

\* a replaceWithElement that re-points the wrapper to the new element
ReplaceWithElementRepointing(tag, idForNewElement) ==
  /\ el # NoNode
  /\ IF parentNode[el] = NoNode
       THEN /\ last' = Last("replaceWithElement", Str(Join(<<tag, ToStr(idForNewElement)>>)),
                            Outcome(NoParentNodeError("replace element", elemId[el]), el, 0, 0), "none")
            /\ returned' = Undefined
            /\ UNCHANGED <<tree, el>>
       ELSE /\ Cardinality(created) < MaxPool
            /\ \E newEl \in {NextNode} :
                 \E t \in {ReplaceChild(parentNode[el], <<newEl>>, el)} :
                   /\ created' = created \cup {newEl}
                   /\ tagName' = [tagName EXCEPT ![newEl] = tag]
                   /\ elemId' = [elemId EXCEPT ![newEl] =
                                   IF idForNewElement.t \in {"undefined", "null"}
                                     THEN elemId[el] ELSE ToStr(idForNewElement)]
                   /\ parentNode' = t.pn
                   /\ childNodes' = t.cn
                   /\ el' = newEl
                   /\ \E id \in {elemId'[newEl]} : \E r \in {ElConstructor(Str(<<"#">> \o id))'} :
                        /\ last' = Last("replaceWithElement",
                                        Str(Join(<<tag, ToStr(idForNewElement)>>)), r,
                                        IF r.err = NoErr THEN "new" ELSE "none")
                        /\ returned' = NodeRef(r.element)
  /\ UNCHANGED <<mote, all, attrs, generated, invoked, form, fade, within>>

\* El.replaceWithElement(tagName, idForNewElement); the new element made before
\* the parent check is dropped with the exception.  returned is the element of
\* the wrapper new El('#' + newEl.id) yields.
ReplaceWithElement(tag, idForNewElement) ==
  /\ el # NoNode
  /\ IF parentNode[el] = NoNode
       THEN /\ last' = Last("replaceWithElement", Str(Join(<<tag, ToStr(idForNewElement)>>)),
                            Outcome(NoParentNodeError("replace element", elemId[el]), el, 0, 0), "none")
            /\ returned' = Undefined
            /\ UNCHANGED tree
       ELSE /\ Cardinality(created) < MaxPool
            /\ \E newEl \in {NextNode} :
                 \E t \in {ReplaceChild(parentNode[el], <<newEl>>, el)} :
                   /\ created' = created \cup {newEl}
                   /\ tagName' = [tagName EXCEPT ![newEl] = tag]
                   /\ elemId' = [elemId EXCEPT ![newEl] =
                                   IF idForNewElement.t \in {"undefined", "null"}
                                     THEN elemId[el] ELSE ToStr(idForNewElement)]
                   /\ parentNode' = t.pn
                   /\ childNodes' = t.cn
                   /\ \E id \in {elemId'[newEl]} : \E r \in {ElConstructor(Str(<<"#">> \o id))'} :
                        /\ last' = Last("replaceWithElement",
                                        Str(Join(<<tag, ToStr(idForNewElement)>>)), r,
                                        IF r.err = NoErr THEN "new" ELSE "none")
                        /\ returned' = NodeRef(r.element)
  /\ UNCHANGED <<el, mote, all, attrs, generated, invoked, form, fade, within>>

\* El.parent(); returned is the element of the wrapper
\* new El('#' + parentElement.id) yields
Parent ==
  /\ el # NoNode
  /\ UNCHANGED <<created, tagName, parentNode, childNodes, el, mote, all, attrs, generated, invoked, form, fade, within>>
  /\ IF ParentElement(el) = NoNode
       THEN /\ last' = Last("parent", Undefined,
                            Outcome(NoParentNodeError("get parent element", elemId[el]), el, 0, 0),
                            "none")
            /\ returned' = Undefined
            /\ UNCHANGED elemId
       ELSE /\ elemId' = IF elemId[ParentElement(el)] = NoStr
                            THEN [elemId EXCEPT ![ParentElement(el)] = <<"parent-">> \o elemId[el]]
                            ELSE elemId
            /\ \E id \in {elemId'[ParentElement(el)]} : \E r \in {ElConstructor(Str(<<"#">> \o id))'} :
                 /\ last' = Last("parent", Undefined, r, IF r.err = NoErr THEN "new" ELSE "none")
                 /\ returned' = NodeRef(r.element)

----------------------------------------------------------------------------
(* El: id, attributes, classes, content and visibility.  The receiver is the
   wrapper of an El or a Mote, which inherits the methods. *)

Receivers == {"el", "mote"}

\* this.element of the receiver
This(self) == IF self = "mote" THEN mote ELSE el

\* El.id(idForEl)
Id(self, idForEl) ==
  /\ This(self) # NoNode
  /\ IF Falsy(idForEl)
       THEN /\ returned' = Str(elemId[This(self)])
            /\ last' = Last("id", idForEl, Outcome(NoErr, This(self), 0, 0), "string")
            /\ UNCHANGED elemId
       ELSE /\ elemId' = IdSet(This(self), ToStr(idForEl))
            /\ returned' = Undefined
            /\ last' = Last("id", idForEl, Outcome(NoErr, This(self), 0, 0), "this")
  /\ UNCHANGED <<created, tagName, parentNode, childNodes, el, mote, all, attrs, generated,
                 invoked, form, fade, within>>

\* El.set({k: value})
Set(self, attrValue) ==
  /\ This(self) # NoNode
  /\ attribute' = IF Falsy(attrValue) THEN attribute
                   ELSE [attribute EXCEPT ![This(self)] = Str(ToStr(attrValue))]
  /\ last' = Last("set", attrValue, Outcome(NoErr, This(self), 0, 0), "this")
  /\ returned' = Undefined
  /\ UNCHANGED <<tree, el, mote, all, classList, animations, generated, invoked, form, fade,
                 within>>

\* El.unset('k')
Unset(self) ==
  /\ This(self) # NoNode
  /\ attribute' = [attribute EXCEPT ![This(self)] = Null]
  /\ last' = Last("unset", Undefined, Outcome(NoErr, This(self), 0, 0), "this")
  /\ returned' = Undefined
  /\ UNCHANGED <<tree, el, mote, all, classList, animations, generated, invoked, form, fade,
                 within>>

\* an addClass that also appends the element to the body
AddClassAttaching(self, className) ==
  /\ This(self) # NoNode
  /\ classList' = [classList EXCEPT ![This(self)] = @ \cup {className[i] : i \in 1..Len(className)}]
  /\ \E t \in {IF CanAppend(BODY, This(self)) THEN AppendChild(BODY, This(self))
               ELSE [pn |-> parentNode, cn |-> childNodes]} :
       /\ parentNode' = t.pn
       /\ childNodes' = t.cn
  /\ last' = Last("addClass", Str(className), Outcome(NoErr, This(self), 0, 0), "this")
  /\ returned' = Undefined
  /\ UNCHANGED <<created, tagName, elemId, el, mote, all, attribute, animations, generated,
                 invoked, form, fade, within>>

\* El.addClass(className), className the list of names the argument splits to
AddClass(self, className) ==
  /\ This(self) # NoNode
  /\ classList' = [classList EXCEPT ![This(self)] = @ \cup {className[i] : i \in 1..Len(className)}]
  /\ last' = Last("addClass", Str(className), Outcome(NoErr, This(self), 0, 0), "this")
  /\ returned' = Undefined
  /\ UNCHANGED <<tree, el, mote, all, attribute, animations, generated, invoked, form, fade,
                 within>>

\* El.removeClass(className)
RemoveClass(self, className) ==
  /\ This(self) # NoNode
  /\ classList' = [classList EXCEPT ![This(self)] = @ \ {className[i] : i \in 1..Len(className)}]
  /\ last' = Last("removeClass", Str(className), Outcome(NoErr, This(self), 0, 0), "this")
  /\ returned' = Undefined
  /\ UNCHANGED <<tree, el, mote, all, attribute, animations, generated, invoked, form, fade,
                 within>>

\* El.clear(), El.empty(), El.html(''): innerHTML = '' detaches every child
Clear(self) ==
  /\ This(self) # NoNode
  /\ parentNode' = [n \in Nodes |-> IF parentNode[n] = This(self) THEN NoNode ELSE parentNode[n]]
  /\ childNodes' = [childNodes EXCEPT ![This(self)] = <<>>]
  /\ last' = Last("clear", Undefined, Outcome(NoErr, This(self), 0, 0), "this")
  /\ returned' = Undefined
  /\ UNCHANGED <<created, tagName, elemId, el, mote, all, attrs, generated, invoked, form, fade,
                 within>>

\* El.hide()
Hide(self) ==
  /\ This(self) # NoNode
  /\ display' = [display EXCEPT ![This(self)] = <<"none">>]
  /\ last' = Last("hide", Undefined, Outcome(NoErr, This(self), 0, 0), "this")
  /\ returned' = Undefined
  /\ UNCHANGED <<tree, el, mote, all, attrs, generated, invoked, form, batch, within>>

\* El.show()
Show(self) ==
  /\ This(self) # NoNode
  /\ display' = IF display[This(self)] \in {<<"none">>, NoStr}
                  THEN [display EXCEPT ![This(self)] = NoStr] ELSE display
  /\ last' = Last("show", Undefined, Outcome(NoErr, This(self), 0, 0), "this")
  /\ returned' = Undefined
  /\ UNCHANGED <<tree, el, mote, all, attrs, generated, invoked, form, batch, within>>

----------------------------------------------------------------------------

(* All: the operations that change the tree or the classes *)

\* whether node n is an element of the list
Among(elements, n) == \E i \in 1..Len(elements) : elements[i] = n

\* All.removeClass(className) with one class name
AllRemoveClass(className) ==
  /\ allMade
  /\ classList' = [n \in DOMAIN classList |->
                     IF Among(allEls, n) THEN classList[n] \ {className} ELSE classList[n]]
  /\ last' = Last("All.removeClass", Str(<<className>>), Outcome(NoErr, NoNode, 0, 0), "this")
  /\ UNCHANGED <<tree, el, mote, all, attribute, animations, generated, more>>

\* a removal over a list that is live: the nodes that left the document leave
\* the list
AllRemoveLive ==
  /\ allMade
  /\ parentNode' = [n \in Nodes |-> IF Among(allEls, n) THEN NoNode ELSE parentNode[n]]
  /\ childNodes' = [n \in Nodes |-> SelectSeq(childNodes[n], LAMBDA c : ~Among(allEls, c))]
  /\ allEls' = <<>>
  /\ last' = Last("All.remove", Undefined, Outcome(NoErr, NoNode, 0, 0), "this")
  /\ UNCHANGED <<created, tagName, elemId, el, mote, allMade, attrs, generated, more>>

\* All.remove(): every element of the list that has a parent is removed from
\* it
AllRemove ==
  /\ allMade
  /\ parentNode' = [n \in Nodes |-> IF Among(allEls, n) THEN NoNode ELSE parentNode[n]]
  /\ childNodes' = [n \in Nodes |-> SelectSeq(childNodes[n], LAMBDA c : ~Among(allEls, c))]
  /\ last' = Last("All.remove", Undefined, Outcome(NoErr, NoNode, 0, 0), "this")
  /\ UNCHANGED <<created, tagName, elemId, el, mote, all, attrs, generated, more>>

----------------------------------------------------------------------------

(* El: fadeIn and fadeOut *)

\* a fade El started: the call, the element animated, the state of the
\* animation (the promise of the call is pending while it runs, fulfilled
\* with the wrapper once it finished, rejected once it was cancelled), and how
\* many fades had been started by the time it settled (0 while it runs)
Animation(op, element, state, calls) ==
  [op |-> op, element |-> element, state |-> state, calls |-> calls]

\* El.fadeIn(duration): display is cleared, then the animation starts
ElFadeIn ==
  /\ el # NoNode
  /\ Len(animations) < MaxPending
  /\ display' = [display EXCEPT ![el] = NoStr]
  /\ animations' = Append(animations, Animation("fadeIn", el, "running", 0))
  /\ last' = Last("El.fadeIn", Undefined, Outcome(NoErr, el, 0, 0), "promise")
  /\ UNCHANGED <<tree, el, mote, all, attribute, classList, generated, invoked, form, returned,
                 batch, within>>

\* a fadeOut that hides the element when it is called
ElFadeOutEager ==
  /\ el # NoNode
  /\ Len(animations) < MaxPending
  /\ display' = [display EXCEPT ![el] = <<"none">>]
  /\ animations' = Append(animations, Animation("fadeOut", el, "running", 0))
  /\ last' = Last("El.fadeOut", Undefined, Outcome(NoErr, el, 0, 0), "promise")
  /\ UNCHANGED <<tree, el, mote, all, attribute, classList, generated, invoked, form, returned,
                 batch, within>>

\* El.fadeOut(duration): the animation starts
ElFadeOut ==
  /\ el # NoNode
  /\ Len(animations) < MaxPending
  /\ animations' = Append(animations, Animation("fadeOut", el, "running", 0))
  /\ last' = Last("El.fadeOut", Undefined, Outcome(NoErr, el, 0, 0), "promise")
  /\ UNCHANGED <<tree, el, mote, all, attribute, classList, generated, invoked, form, returned,
                 fade, within>>

\* the platform finishes animation i; the reaction to animation.finished runs
\* with it: for fadeOut it sets display to none, and the promise of the call
\* is fulfilled with the wrapper
AnimationFinished(i) ==
  /\ i \in 1..Len(animations)
  /\ animations[i].state = "running"
  /\ animations' = [animations EXCEPT ![i].state = "finished", ![i].calls = Len(animations)]
  /\ display' = IF animations[i].op = "fadeOut"
                  THEN [display EXCEPT ![animations[i].element] = <<"none">>]
                  ELSE display
  /\ last' = Last("El.finished", Num(i - 1), Outcome(NoErr, animations[i].element, 0, 0), "this")
  /\ UNCHANGED <<tree, el, mote, all, attribute, classList, generated, invoked, form, returned,
                 batch, within>>

\* animation i is cancelled: animation.finished rejects, the reaction does not
\* run, and the promise of the call is rejected
AnimationCancelled(i) ==
  /\ i \in 1..Len(animations)
  /\ animations[i].state = "running"
  /\ animations' = [animations EXCEPT ![i].state = "cancelled", ![i].calls = Len(animations)]
  /\ last' = Last("El.cancelled", Num(i - 1), Outcome(NoErr, animations[i].element, 0, 0), "none")
  /\ UNCHANGED <<tree, el, mote, all, attribute, classList, generated, invoked, form, returned,
                 fade, within>>

----------------------------------------------------------------------------

(* test-utils.ts: the code around the wrappers that builds the document *)

CreateTestElement(tag, id) ==
  /\ Cardinality(created) < MaxPool
  /\ LET n == NextNode
         t == AppendChild(BODY, n)
     IN /\ created' = created \cup {n}
        /\ tagName' = [tagName EXCEPT ![n] = tag]
        /\ elemId' = [elemId EXCEPT ![n] = id]
        /\ parentNode' = t.pn
        /\ childNodes' = t.cn
  /\ last' = Last("createTestElement", Str(Join(<<tag, id>>)), Outcome(NoErr, NoNode, 0, 0), "none")
  /\ UNCHANGED <<el, mote, all, attrs, generated, more>>

\* createTestElement(tag, id, {class: className})
CreateTestElementWith(tag, id, className) ==
  /\ Cardinality(created) < MaxPool
  /\ LET n == NextNode
         t == AppendChild(BODY, n)
     IN /\ created' = created \cup {n}
        /\ tagName' = [tagName EXCEPT ![n] = tag]
        /\ elemId' = [elemId EXCEPT ![n] = id]
        /\ parentNode' = t.pn
        /\ childNodes' = t.cn
        /\ classList' = [classList EXCEPT ![n] = {className}]
  /\ last' = Last("createTestElement", Str(Join(<<tag, id>>)), Outcome(NoErr, NoNode, 0, 0), "none")
  /\ UNCHANGED <<el, mote, all, attribute, animations, generated, more>>

CleanupTestElements ==
  /\ childNodes[BODY] # <<>>
  /\ parentNode' = [n \in Nodes |-> IF parentNode[n] = BODY THEN NoNode ELSE parentNode[n]]
  /\ childNodes' = [childNodes EXCEPT ![BODY] = <<>>]
  /\ last' = Last("cleanupTestElements", Undefined, Outcome(NoErr, NoNode, 0, 0), "none")
  /\ UNCHANGED <<created, tagName, elemId, el, mote, all, attrs, generated, more>>

----------------------------------------------------------------------------

Init ==
  /\ created = {}
  /\ tagName = [n \in DOC..(FRAG + PoolSize) |-> CASE n = HTML -> <<"html">> [] n = HEAD -> <<"head">>
                                  [] n = BODY -> <<"body">> [] OTHER -> NoStr]
  /\ elemId = [n \in DOC..(FRAG + PoolSize) |-> NoStr]
  /\ parentNode = [n \in DOC..(FRAG + PoolSize) |-> CASE n = HTML -> DOC [] n \in {HEAD, BODY} -> HTML
                                     [] OTHER -> NoNode]
  /\ childNodes = [n \in DOC..(FRAG + PoolSize) |-> CASE n = DOC -> <<HTML>> [] n = HTML -> <<HEAD, BODY>>
                                     [] OTHER -> <<>>]
  /\ el = NoNode
  /\ mote = NoNode
  /\ allEls = <<>>
  /\ allMade = FALSE
  /\ invoked = <<>>
  /\ inputType = [n \in created |-> NoStr]
  /\ value = [n \in created |-> Str(NoStr)]
  /\ checked = [n \in created |-> FALSE]
  /\ srcOf = [n \in created |-> NoStr]
  /\ altOf = [n \in created |-> NoStr]
  /\ returned = Undefined
  /\ display = [n \in DOC..(FRAG + PoolSize) |-> NoStr]
  /\ batch = NoBatch
  /\ steps = <<>>
  /\ microtasks = <<>>
  /\ console = <<>>
  /\ attribute = [n \in DOMAIN parentNode |-> Null]
  /\ classList = [n \in DOMAIN parentNode |-> {}]
  /\ animations = <<>>
  /\ generated = {}
  /\ last = Last("init", Undefined, Outcome(NoErr, NoNode, 0, 0), "none")

\* the document after createTestElement ran for each element of the form page
FormNodes == (FRAG + 1)..(FRAG + Len(Fixture))

InitForm ==
  /\ created = FormNodes
  /\ tagName = [n \in DOC..(FRAG + Len(Fixture)) |-> CASE n = HTML -> <<"html">> [] n = HEAD -> <<"head">>
                                  [] n = BODY -> <<"body">>
                                  [] n \in FormNodes -> <<Fixture[n - FRAG][1]>>
                                  [] OTHER -> NoStr]
  /\ elemId = [n \in DOC..(FRAG + Len(Fixture)) |-> IF n \in FormNodes THEN <<"a">> ELSE NoStr]
  /\ parentNode = [n \in DOC..(FRAG + Len(Fixture)) |-> CASE n = HTML -> DOC [] n \in {HEAD, BODY} -> HTML
                                     [] n \in FormNodes -> BODY [] OTHER -> NoNode]
  /\ childNodes = [n \in DOC..(FRAG + Len(Fixture)) |-> CASE n = DOC -> <<HTML>> [] n = HTML -> <<HEAD, BODY>>
                                     [] n = BODY -> [i \in 1..Len(Fixture) |-> FRAG + i]
                                     [] OTHER -> <<>>]
  /\ el = NoNode
  /\ mote = NoNode
  /\ allEls = <<>>
  /\ allMade = FALSE
  /\ invoked = <<>>
  /\ inputType = [n \in FormNodes |-> IF Fixture[n - FRAG][2] # ""
                                        THEN <<Fixture[n - FRAG][2]>> ELSE NoStr]
  /\ value = [n \in FormNodes |-> Str(NoStr)]
  /\ checked = [n \in FormNodes |-> FALSE]
  /\ srcOf = [n \in FormNodes |-> NoStr]
  /\ altOf = [n \in FormNodes |-> NoStr]
  /\ returned = Undefined
  /\ display = [n \in DOC..(FRAG + Len(Fixture)) |-> NoStr]
  /\ batch = NoBatch
  /\ steps = <<>>
  /\ microtasks = <<>>
  /\ console = <<>>
  /\ attribute = [n \in DOMAIN parentNode |-> Null]
  /\ classList = [n \in DOMAIN parentNode |-> {}]
  /\ animations = <<>>
  /\ generated = {}
  /\ last = Last("init", Undefined, Outcome(NoErr, NoNode, 0, 0), "none")

Environment ==
  \/ \E tag \in Names, id \in TestIds : CreateTestElement(tag, id)
  \/ CleanupTestElements

NextEl ==
  \/ Environment
  \/ \E selector \in Inputs : NewEl(selector)

SpecEl == Init /\ [][NextEl]_vars

\* construction from every input string, and the attachments without argument
NextMoteNew ==
  \/ \E selector \in {Str(s) : s \in Strings} \cup {Num(123), Null} : NewMote(selector)
  \/ AppendToBody
  \/ AppendToHead
  \/ AppendToRoot

SpecMoteNew == Init /\ [][NextMoteNew]_vars

\* construction from the well-formed specifiers, and every attachment
NextMote ==
  \/ \E selector \in {Str(s) : s \in Specifiers} : NewMote(selector)
  \/ \E selector \in {Str(s) : s \in Selectors} \cup {NodeRef(n) : n \in Live} : AppendTo(selector)
  \/ AppendToBody
  \/ AppendToHead
  \/ AppendToRoot

SpecMote == Init /\ [][NextMote]_vars

\* a created node, attached or not, the deferred-creation callback, and the
\* factory
NextWithin ==
  \/ \E selector \in {Str(s) : s \in Specifiers} : NewMote(selector)
  \/ AppendToBody
  \/ \E cb \in Callbacks : AppendWithin(cb)
  \/ \E i \in 1..Len(microtasks) : Reaction(i)
  \/ \E tag \in Specifiers, appendTo \in {Str(<<"body">>), Str(<<"#", "a">>)},
        fromWithin \in Callbacks \cup {"none"} : MoteFactory(tag, appendTo, fromWithin)

SpecWithin == Init /\ [][NextWithin]_vars

NextAll ==
  \/ Environment
  \/ \E tempSelector \in {Str(s) : s \in Selectors} : NewAll(tempSelector)

SpecAll == Init /\ [][NextAll]_vars

\* collections by tag and by id, and the iteration
NextEach ==
  \/ Environment
  \/ \E tempSelector \in {Str(<<"div">>), Str(<<"a">>), Str(<<"#", "a">>)} : NewAll(tempSelector)
  \/ Each

SpecEach == Init /\ [][NextEach]_vars

\* a wrapper over an element the tests made, and the operations that need a
\* parent
NextDetach ==
  \/ Environment
  \/ \E n \in created : NewEl(NodeRef(n))
  \/ Remove
  \/ Wrap
  \/ \E tags \in {NoStr, <<"div">>} : ReplaceWith(tags)
  \/ \E tag \in Names, idForNewElement \in {Undefined, Str(<<"a">>)} :
       ReplaceWithElement(tag, idForNewElement)
  \/ Parent

SpecDetach == Init /\ [][NextDetach]_vars

\* a collection of the elements the tests made, one fade at a time (the caller
\* awaits the promise, as the tests do), and the platform's animation events
\* in any order
NextFade ==
  \/ CreateTestElement(<<"div">>, NoStr)
  \/ NewAll(Str(<<"div">>))
  \/ AllFadeOut
  \/ AllFadeIn
  \/ \E i \in 1..Len(batch.anims) : Finished(i)
  \/ \E i \in 1..Len(batch.anims) : Cancelled(i)
  \/ Fulfilled

SpecFade == Init /\ [][NextFade]_vars

ValInputs == {Undefined, Null, Str(<<"a">>), Num(1)}

\* a wrapper over each element of the form page, and the value operations
NextVal ==
  \/ \E n \in created : NewEl(NodeRef(n))
  \/ \E newVal \in ValInputs : ElVal(newVal)
  \/ \E tempSelector \in {Str(<<"#", "a">>), Str(<<"div">>)} : NewAll(tempSelector)
  \/ \E newVal \in ValInputs \ {Null} : AllVal(newVal)

SpecVal == InitForm /\ [][NextVal]_vars

\* a wrapper over each element of the form page, and the checkbox and image
\* operations
NextCheck ==
  \/ \E n \in created : NewEl(NodeRef(n))
  \/ \E trueOrFalse \in BOOLEAN : Check(trueOrFalse)
  \/ Checked
  \/ \E srcString \in {<<"a">>} : Src(srcString)
  \/ \E altString \in {<<"a">>} : Alt(altString)

SpecCheck == InitForm /\ [][NextCheck]_vars

----------------------------------------------------------------------------
(* Properties *)

\* msg contains s as a contiguous part
Carries(msg, s) ==
  \E i \in 1..(Len(msg) - Len(s) + 1) : SubSeq(msg, i, i + Len(s) - 1) = s

ElementNodes == created \cup {HTML, HEAD, BODY}
InDocument(n) == n \in ElementNodes /\ DOC \in InclusiveAncestors(n)

\* the elements of the document that a valid selector matches
MatchSet(s) == {n \in ElementNodes : InDocument(n) /\ Matches(n, Split(s, "#"))}

\* C1: new El(S), for a selector S that matches no node of the document, throws
\* ElementNotFoundError with S in its message, produces no wrapper and leaves
\* the tree as it was.
C1_NoMatchThrows ==
  [][(/\ last'.op = "El"
      /\ last'.arg.t = "string"
      /\ ValidSelector(last'.arg.s)
      /\ MatchSet(last'.arg.s) = {})
     => (/\ last'.err.name = "ElementNotFoundError"
         /\ Carries(last'.err.message, last'.arg.s)
         /\ last'.ret = "none"
         /\ el' = NoNode
         /\ tree' = tree)]_vars

\* C1 witness: the lookup failed although a created element that is not in the
\* document matches the selector
C1_Witness ==
  /\ last.op = "El"
  /\ last.arg.t = "string"
  /\ ValidSelector(last.arg.s)
  /\ last.err.name = "ElementNotFoundError"
  /\ \E n \in created : ~InDocument(n) /\ Matches(n, Split(last.arg.s, "#"))

\* C2: new El(f) calls f once; a returned node is adopted, a returned string is
\* looked up as a selector string is, a falsy return throws
\* InvalidReturnValueError, and nothing else can happen.
C2_FunctionOutcomes ==
  (last.op = "El" /\ last.arg.t = "function")
  => LET r == Ret(last.arg)
     IN /\ last.calls = 1
        /\ Falsy(r) => last.err.name = "InvalidReturnValueError"
        /\ IsAElement(r) => last.err = NoErr /\ el = r.n
        /\ (r.t = "string" /\ ~Falsy(r))
           => last.err = ElConstructor(r).err /\ el = ElConstructor(r).element
        /\ \/ last.err.name \in {"", "ElementNotFoundError", "InvalidReturnValueError"}
           \/ r.t = "string" /\ last.err.name = "SyntaxError"

\* C3 as stated: new El(node) succeeds for every node object, performs no lookup
\* and wraps exactly that node.
C3_AnyNodeAdopted ==
  (last.op = "El" /\ last.arg.t = "node")
  => last.err = NoErr /\ last.lookups = 0 /\ el = last.arg.n

\* C3 as amended: new El(node) succeeds for every node that is an HTMLElement,
\* performs no lookup and wraps exactly that node.
C3_HTMLElementAdopted ==
  (last.op = "El" /\ last.arg.t = "node" /\ IsHTMLElement(last.arg.n))
  => last.err = NoErr /\ last.lookups = 0 /\ el = last.arg.n

\* C3 witness: the adopted element is not in the document, and an element with
\* the same tag and id is
C3_Witness ==
  /\ last.op = "El"
  /\ last.arg.t = "node"
  /\ el = last.arg.n
  /\ el \in created
  /\ ~InDocument(el)
  /\ \E n \in created : n # el /\ InDocument(n) /\ tagName[n] = tagName[el]
                        /\ elemId[n] = elemId[el]

\* C4: new El(x), for x that is no string, node or function, throws
\* InvalidSelectorError echoing x.
C4_InvalidSelector ==
  (last.op = "El" /\ last.arg.t \notin {"string", "node", "function"})
  => last.err = InvalidSelectorError(last.arg)

\* C5: new Mote('T') without an id part yields a detached node of kind T with a
\* non-empty generated id, different from every id generated before.
C5_GeneratedId ==
  (last.op = "Mote" /\ last.arg.t = "string" /\ IsName(last.arg.s))
  => /\ last.err = NoErr
     /\ tagName[mote] = last.arg.s
     /\ parentNode[mote] = NoNode
     /\ elemId[mote] # NoStr
     /\ \A n \in generated \ {mote} : elemId[n] # elemId[mote]

\* C6: new Mote('T#id'), for a valid tag T and identifier id, yields a node of
\* kind T whose id is exactly id.
C6_TagAndId ==
  \A T \in Names, id \in Names :
    (last.op = "Mote" /\ last.arg = Str(T \o <<"#">> \o id))
    => last.err = NoErr /\ tagName[mote] = T /\ elemId[mote] = id

\* C6 witness: a node made from a specifier whose tag and id differ
C6_Witness ==
  /\ last.op = "Mote"
  /\ last.arg = Str(<<"div", "#", "a">>)
  /\ tagName[mote] = <<"div">>
  /\ elemId[mote] = <<"a">>

\* C7: new Mote(x), for x that is not a string, throws InvalidSelectorError and
\* creates no node.
C7_NonString ==
  (last.op = "Mote" /\ last.arg.t # "string")
  => last.err.name = "InvalidSelectorError" /\ mote = NoNode

\* the node a target argument of appendTo resolves to, or NoNode
Resolved(selector) ==
  IF selector.t = "node" THEN selector.n
  ELSE IF selector.t = "string" /\ ValidSelector(selector.s) THEN QuerySelector(selector.s)
  ELSE NoNode

\* the wrapper's node is the last child of node t, after the children t had
AppendedLast(t) ==
  /\ last'.err = NoErr
  /\ last'.ret = "this"
  /\ mote' = mote
  /\ parentNode'[mote] = t
  /\ childNodes'[t] = Without(childNodes[t], mote) \o <<mote>>
  /\ tagName' = tagName
  /\ elemId' = elemId

\* C8 as stated: appendTo(target), for a selector that matches a node or a
\* direct container reference, makes the node the last child of the resolved
\* target, after the children it had, and returns the wrapper; kind and id stay.
C8_AppendedLast ==
  [][last'.op = "appendTo"
     => \A t \in {Resolved(last'.arg)} : t # NoNode => AppendedLast(t)]_vars

\* C8 as amended: the same, unless the resolved target is the wrapper's node,
\* one of its descendants, or the document (which has its root element): then
\* appendTo throws HierarchyRequestError and the tree stays as it was.
C8_AppendedLastIfAccepted ==
  [][last'.op = "appendTo"
     => \A t \in {Resolved(last'.arg)} :
          t # NoNode
          => IF mote \in InclusiveAncestors(t) \/ (t = DOC /\ childNodes[DOC] # <<>>)
               THEN last'.err.name = "HierarchyRequestError" /\ tree' = tree /\ mote' = mote
               ELSE AppendedLast(t)]_vars

\* C8 witness: a selector resolved to a target that had other children, and the
\* node is now its last child
C8_Witness ==
  /\ last.op = "appendTo"
  /\ last.arg.t = "string"
  /\ last.err = NoErr
  /\ parentNode[mote] # NoNode
  /\ Len(childNodes[parentNode[mote]]) > 1
  /\ childNodes[parentNode[mote]][Len(childNodes[parentNode[mote]])] = mote

\* C9: appendTo(S), for a selector S that matches no node, throws
\* ElementNotFoundError and attaches the node nowhere.
C9_NoTarget ==
  [][(/\ last'.op = "appendTo"
      /\ last'.arg.t = "string"
      /\ ValidSelector(last'.arg.s)
      /\ MatchSet(last'.arg.s) = {})
     => last'.err.name = "ElementNotFoundError" /\ tree' = tree]_vars

\* C10: new All(S) never throws; the size of its collection is the number of
\* nodes of the document that match S, which may be zero.
C10_AllNeverFails ==
  (last.op = "All" /\ last.arg.t = "string" /\ ValidSelector(last.arg.s))
  => /\ last.err = NoErr
     /\ Len(allEls) = Cardinality(MatchSet(last.arg.s))
     /\ {allEls[i] : i \in 1..Len(allEls)} = MatchSet(last.arg.s)

\* C10 witness: an empty collection, taken while a created element that is not
\* in the document matches the selector
C10_Witness ==
  /\ last.op = "All"
  /\ last.err = NoErr
  /\ allEls = <<>>
  /\ \E n \in created : ~InDocument(n) /\ Matches(n, Split(last.arg.s, "#"))

\* C11: each(callback) calls the callback once per node of the collection, in
\* collection order, with that node and its zero-based index, and returns the
\* wrapper; on an empty collection it makes no call and raises nothing.
C11_EachOncePerNode ==
  last.op = "each"
  => /\ last.err = NoErr
     /\ last.ret = "this"
     /\ Len(invoked) = Len(allEls)
     /\ \A i \in 1..Len(allEls) : invoked[i] = <<allEls[i], i - 1>>
     /\ allEls = <<>> => invoked = <<>>

\* C11 witness: the callback ran over a collection of two nodes
C11_Witness ==
  /\ last.op = "each"
  /\ Len(allEls) >= 2
  /\ Len(invoked) >= 2

\* the kinds of node the specification calls input-like
InputLike(n) == tagName[n] \in {<<"input">>, <<"select">>, <<"textarea">>, <<"option">>, <<"progress">>}

\* C12: val, with or without argument, throws InvalidElementTypeError on a node
\* that is not input-like and succeeds on an input, select, textarea, option
\* and progress; val() after a successful val(v) returns the string form of v.
C12_ValByKind ==
  [][last'.op = "val"
     => /\ ~InputLike(el') => last'.err.name = "InvalidElementTypeError"
        /\ InputLike(el') => last'.err = NoErr
        /\ (/\ last.op = "val" /\ last.ret = "this" /\ el' = el
            /\ last'.ret = "value")
           => returned' = Str(ToStr(last.arg))]_vars

\* C13: All.val(v) over a collection never throws, gives every input-like node
\* of the collection the string form of v and changes no other node; El.val on
\* a node that is not input-like throws InvalidElementTypeError.
C13_BatchValue ==
  [][/\ (last'.op = "allVal" /\ last'.arg.t # "undefined")
        => /\ last'.err = NoErr
           /\ \A n \in DOMAIN value :
                value'[n] = IF InputLike(n) /\ \E i \in 1..Len(allEls) : allEls[i] = n
                              THEN Str(ToStr(last'.arg)) ELSE value[n]
     /\ (last'.op = "val" /\ ~InputLike(el'))
        => last'.err.name = "InvalidElementTypeError"]_vars

\* what check, checked, src and alt promise when they refuse a node
Refused ==
  /\ last'.err.name = "InvalidElementTypeError"
  /\ last'.ret = "none"
  /\ form' = form
  /\ tree' = tree

C14_RemoveTwice ==
  [][last'.op = "remove"
     => /\ el' = el
        /\ parentNode[el] # NoNode
           => /\ last'.err = NoErr
              /\ last'.ret = "this"
              /\ parentNode' = [parentNode EXCEPT ![el] = NoNode]
              /\ childNodes' = [childNodes EXCEPT ![parentNode[el]] = Without(@, el)]
              /\ <<created', tagName', elemId'>> = <<created, tagName, elemId>>
        /\ (last.op = "remove" /\ last.err = NoErr)
           => /\ last'.err.name = "NoParentNodeError"
              /\ Carries(last'.err.message, <<"remove element">>)
              /\ elemId[el] # NoStr => Carries(last'.err.message, <<" (element id: '">> \o elemId[el])
              /\ last'.ret = "none"
              /\ tree' = tree]_vars

\* C14 witness: the second removal of a node that has an id failed, and other
\* nodes are still in the body
C14_Witness ==
  /\ last.op = "remove"
  /\ last.err.name = "NoParentNodeError"
  /\ elemId[el] # NoStr
  /\ parentNode[el] = NoNode
  /\ childNodes[BODY] # <<>>

\* C15: on a wrapper whose node has no parent, wrap, replaceWith,
\* replaceWithElement and parent each throw NoParentNodeError.
C15_NoParentThrows ==
  [][(/\ last'.op \in {"wrap", "replaceWith", "replaceWithElement", "parent"}
      /\ parentNode[el] = NoNode)
     => last'.err.name = "NoParentNodeError" /\ tree' = tree]_vars

StepOf(e) ==
  IF \E i \in 1..Len(steps) : steps[i] = e
    THEN CHOOSE i \in 1..Len(steps) : steps[i] = e /\ \A j \in 1..(i - 1) : steps[j] # e
  ELSE 0

\* C18 as stated: appendWithin(callback) does not run the callback inline; the
\* callback runs only after appendWithin has returned to its caller.
C18_Deferred ==
  last.op = "appendWithin"
  => StepOf("return") > 0 /\ (StepOf("callback") = 0 \/ StepOf("callback") > StepOf("return"))

\* C18 as amended: appendWithin(callback) runs the callback inline, once, as
\* the first thing it does, before it registers its reactions and returns to
\* its caller (or before the callback's exception leaves it).
C18_Inline ==
  last.op = "appendWithin"
  => /\ StepOf("callback") = 1
     /\ \A i \in 2..Len(steps) : steps[i] # "callback"
     /\ steps[Len(steps)] \in {"return", "throw"}

\* C18 witness: the callback ran on a node that is not attached, and
\* appendWithin returned after it
C18_Witness ==
  /\ last.op = "appendWithin"
  /\ last.err = NoErr
  /\ parentNode[mote] = NoNode
  /\ StepOf("callback") = 1
  /\ StepOf("return") = Len(steps)

\* whether the last call of the factory was given a callback
CallbackGiven == last.arg.s[Len(last.arg.s)] # "none"

\* whether the last call of the factory attached the node it made
FactoryAttached == last.err = NoErr \/ last.err.message = <<"thrown by cb">>

\* C19: every call of appendWithin(callback) calls the callback exactly once,
\* with '#' followed by the id of the wrapper's node; the factory calls its
\* third argument the same way, after the new node was appended to its target,
\* and nothing else calls it.
C19_CalledOnceWithId ==
  /\ last.op = "appendWithin"
     => /\ last.calls = 1
        /\ invoked = <<Str(<<"#">> \o elemId[mote])>>
  /\ (last.op = "mote" /\ CallbackGiven /\ FactoryAttached)
     => /\ last.calls = 1
        /\ Len(invoked) = 1
        /\ \E n \in created : parentNode[n] # NoNode /\ invoked[1] = Str(<<"#">> \o elemId[n])
        /\ last.err = NoErr
           => parentNode[mote] # NoNode /\ invoked[1] = Str(<<"#">> \o elemId[mote])
        /\ 0 < StepOf("appendTo") /\ StepOf("appendTo") < StepOf("callback")
  /\ (last.op = "mote" /\ ~(CallbackGiven /\ FactoryAttached))
     => last.calls = 0 /\ invoked = <<>>
  /\ last.op = "reaction" => last.calls = 0 /\ invoked = <<>>

\* C19 witness: the factory made a node with an id, appended it to the body
\* and called the callback with that id
C19_Witness ==
  /\ last.op = "mote"
  /\ last.err = NoErr
  /\ CallbackGiven
  /\ parentNode[mote] = BODY
  /\ invoked = <<Str(<<"#", "a">>)>>

\* C20: a failure of the callback never reaches the caller of appendWithin:
\* whether the callback throws or returns a promise that rejects, appendWithin
\* returns normally, and the failure goes to the console when the reaction
\* runs.
C20_FailureHidden ==
  /\ (last.op = "appendWithin" /\ last.arg.s \in {<<"throws">>, <<"rejects">>})
     => last.err = NoErr /\ last.ret = "undefined"
  /\ (last.op = "reaction" /\ last.arg.s = <<"rejected">>) => console = <<"error">>

----------------------------------------------------------------------------
(* El: what replaceWithElement and parent hand back, and what a failed call
   leaves behind *)

\* C27: replaceWithElement(tag, id) on a node that has a parent puts a newly
\* created node in the old node's position among the parent's children, gives
\* it the supplied id or else the old node's id, and returns a wrapper whose
\* node is exactly that new node -- also when the resulting id is empty, when
\* an earlier node of the document has the same id, and when the parent is
\* not in the document.
C27_NewNodeReturned ==
  [][(last'.op = "replaceWithElement" /\ parentNode[el] # NoNode)
     => \E newEl \in created' \ created :
          /\ childNodes'[parentNode[el]] = Replaced(childNodes[parentNode[el]], el, <<newEl>>)
          /\ parentNode'[newEl] = parentNode[el]
          /\ parentNode'[el] = NoNode
          /\ tagName'[newEl] \in Names
          /\ elemId'[newEl] \in {elemId[el], <<"a">>}
          /\ last'.err = NoErr
          /\ returned' = NodeRef(newEl)]_vars

\* C28: parent() on a node that has a parent element returns a wrapper whose
\* node is exactly that parent element, whether or not the parent has an id,
\* whether or not another node shares that id, and whether or not the parent
\* is attached to the document.
C28_ParentReturned ==
  [][(last'.op = "parent" /\ ParentElement(el) # NoNode)
     => /\ last'.err = NoErr
        /\ returned' = NodeRef(ParentElement(el))]_vars

\* the operations of El and Mote that can throw
Throwing ==
  {"El", "Mote", "remove", "wrap", "replaceWithElement", "parent", "val", "check", "src",
   "alt", "appendTo"}

\* C30: whenever an operation of El or Mote throws, the document tree and
\* every node's id and attributes are exactly as they were before the call.
C30_FailureAtomic ==
  [][(last'.op \in Throwing /\ last'.err # NoErr) => <<tree, form>>' = <<tree, form>>]_vars

----------------------------------------------------------------------------
(* El: the id and the attributes *)

\* the values an attribute or an id is set from
AttrValues ==
  {Str(NoStr), Str(<<"a">>), Num(0), Num(1), Bool(FALSE), Bool(TRUE)}

\* a wrapper over an element the tests made, its id and its attribute
NextAttr ==
  \/ \E tag \in {<<"div">>}, id \in {NoStr, <<"a">>} : CreateTestElement(tag, id)
  \/ \E n \in created : NewEl(NodeRef(n))
  \/ \E idForEl \in {Undefined, Str(NoStr), Str(<<"a">>), Str(<<"div">>)} : Id("el", idForEl)
  \/ \E attrValue \in AttrValues : Set("el", attrValue)
  \/ Unset("el")

SpecAttr == Init /\ [][NextAttr]_vars

\* C21: id() with no argument returns the current id and changes nothing;
\* id(x) with a string x, the empty string included, sets the node's id to x
\* and returns the wrapper.
C21_IdByArity ==
  [][last'.op = "id"
     => IF last'.arg = Undefined
          THEN returned' = Str(elemId[el]) /\ elemId' = elemId /\ last'.ret = "string"
          ELSE elemId' = [elemId EXCEPT ![el] = last'.arg.s] /\ last'.ret = "this"]_vars

\* C22: for every string, number or boolean V, the empty string, 0 and false
\* included, after set({k: V}) the attribute k reads as the string form of V.
C22_SetRoundTrip ==
  [][last'.op = "set" => attribute'[el] = Str(ToStr(last'.arg))]_vars

----------------------------------------------------------------------------
(* Mote: the inherited operations between construction and attachment *)

\* the attachment calls of Mote
Attachments == {"appendTo", "appendToBody", "appendToHead", "appendToRoot"}

\* a created node, the operations it inherits from El, and the attachments
NextInherit ==
  \/ \E selector \in {Str(<<"div">>), Str(<<"div", "#", "a">>)} : NewMote(selector)
  \/ Id("mote", Str(<<"a">>))
  \/ Set("mote", Str(<<"a">>))
  \/ AddClass("mote", <<"a">>)
  \/ Clear("mote")
  \/ Hide("mote")
  \/ \E selector \in {Str(<<"body">>), Str(<<"#", "a">>)} : AppendTo(selector)
  \/ AppendToBody
  \/ AppendToHead
  \/ AppendToRoot

SpecInherit == Init /\ [][NextInherit]_vars

\* C25: the node a Mote created has no parent when the constructor returns,
\* and no operation other than an attachment call (appendTo, appendToBody,
\* appendToHead, appendToRoot) gives it one: the id, attribute, class, content
\* and style operations inherited from El leave it detached.
C25_DetachedUntilAttached ==
  [][/\ (last'.op = "Mote" /\ last'.err = NoErr) => parentNode'[mote'] = NoNode
     /\ (/\ mote # NoNode
         /\ mote' = mote
         /\ parentNode[mote] = NoNode
         /\ last'.op \notin Attachments)
        => parentNode'[mote] = NoNode]_vars

\* C25 witness: a created node that got an id, an attribute, a class and a
\* display style, and is still detached
C25_Witness ==
  /\ mote # NoNode
  /\ parentNode[mote] = NoNode
  /\ elemId[mote] = <<"a">>
  /\ attribute[mote] = Str(<<"a">>)
  /\ classList[mote] = {"a"}
  /\ display[mote] = <<"none">>
  /\ last.op \in {"id", "set", "addClass", "hide", "clear"}

----------------------------------------------------------------------------
(* El and Mote: the node of a wrapper and what the chainable operations
   return *)

\* the operations that end in return this
Chainable ==
  {"remove", "wrap", "replaceWith", "set", "unset", "addClass", "removeClass", "clear", "hide",
   "show", "appendTo", "appendToBody", "appendToHead", "appendToRoot"}

\* a wrapper over an element the tests made and a created node, under the
\* operations of both
NextChain ==
  \/ CreateTestElement(<<"div">>, <<"a">>)
  \/ \E n \in created : NewEl(NodeRef(n))
  \/ NewMote(Str(<<"div">>))
  \/ Remove
  \/ Wrap
  \/ ReplaceWith(NoStr)
  \/ ReplaceWithElement(<<"div">>, Undefined)
  \/ Parent
  \/ Id("mote", Str(<<"a">>))
  \/ AppendToBody

SpecChain == Init /\ [][NextChain]_vars

----------------------------------------------------------------------------
(* All: the list is the one the constructor got *)

\* collections by class and by tag, and the changes of the tree and of the
\* classes made through the collection and around it
NextSnapshot ==
  \/ CreateTestElementWith(<<"div">>, NoStr, "a")
  \/ CleanupTestElements
  \/ \E tempSelector \in {Str(<<".", "a">>), Str(<<"div">>)} : NewAll(tempSelector)
  \/ \E n \in created : NewEl(NodeRef(n))
  \/ Remove
  \/ RemoveClass("el", <<"a">>)
  \/ AllRemoveClass("a")
  \/ AllRemove
  \/ Each

SpecSnapshot == Init /\ [][NextSnapshot]_vars

\* C24: once constructed, the list of an All keeps its members and their
\* order whatever happens to the tree and the classes afterwards, through the
\* wrapper or around it; each(), remove() and removeClass() act on exactly the
\* nodes of that list.
C24_Snapshot ==
  [][/\ last'.op # "All" => all' = all
     /\ last'.op = "each"
        => /\ Len(invoked') = Len(allEls)
           /\ \A i \in 1..Len(allEls) : invoked'[i] = <<allEls[i], i - 1>>
     /\ last'.op = "All.remove"
        => \A n \in Nodes : parentNode'[n] = IF Among(allEls, n) THEN NoNode ELSE parentNode[n]
     /\ last'.op = "All.removeClass"
        => \A n \in Nodes : classList'[n] = IF Among(allEls, n) THEN classList[n] \ {"a"}
                                             ELSE classList[n]]_vars

\* C24 witness: each() ran over a list selected by class, after its node lost
\* the class and was removed from the document, and a node with the class was
\* added to the document
C24_Witness ==
  /\ last.op = "each"
  /\ Len(allEls) >= 1
  /\ Len(invoked) = Len(allEls)
  /\ "a" \notin classList[allEls[1]]
  /\ parentNode[allEls[1]] = NoNode
  /\ \E n \in created : ~Among(allEls, n) /\ parentNode[n] = BODY /\ "a" \in classList[n]

----------------------------------------------------------------------------
(* El: fades *)

\* wrappers over the elements the tests made, their fades, and the platform's
\* animation events in any order
NextAnimate ==
  \/ CreateTestElement(<<"div">>, <<"a">>)
  \/ \E n \in created : NewEl(NodeRef(n))
  \/ ElFadeIn
  \/ ElFadeOut
  \/ \E i \in 1..Len(animations) : AnimationFinished(i)
  \/ \E i \in 1..Len(animations) : AnimationCancelled(i)

SpecAnimate == Init /\ [][NextAnimate]_vars

\* the fades of the two kinds, by position
IsFade(i, op) == i \in 1..Len(animations) /\ animations[i].op = op

\* C26: fadeOut changes no display when it is called and returns a pending
\* promise; the promise is fulfilled with the wrapper in the step in which the
\* platform finishes the animation, and that step, not an earlier one, sets
\* the node's display to none.  fadeIn clears the display in the call, before
\* the animation runs, and its promise is fulfilled with the wrapper when the
\* animation finished, which changes no display.
C26_FadeCompletion ==
  [][/\ last'.op = "El.fadeOut"
        => /\ display' = display
           /\ animations' = Append(animations, Animation("fadeOut", el, "running", 0))
     /\ last'.op = "El.fadeIn"
        => /\ display' = [display EXCEPT ![el] = NoStr]
           /\ animations' = Append(animations, Animation("fadeIn", el, "running", 0))
     /\ \A i \in 1..Len(animations) :
          (animations[i].state = "running" /\ animations'[i].state = "finished")
          => /\ last'.op = "El.finished"
             /\ last'.arg = Num(i - 1)
             /\ last'.ret = "this"
             /\ display' = IF IsFade(i, "fadeOut")
                             THEN [display EXCEPT ![animations[i].element] = <<"none">>]
                             ELSE display
     /\ \A i \in 1..Len(animations) :
          animations[i].state # "running" => animations'[i] = animations[i]
     /\ \A n \in Nodes :
          (display[n] # <<"none">> /\ display'[n] = <<"none">>)
          => \E i \in 1..Len(animations) :
               /\ IsFade(i, "fadeOut")
               /\ animations[i].element = n
               /\ animations[i].state = "running"
               /\ animations'[i].state = "finished"]_vars

\* C26 witness: a fadeOut finished and hid its node, then a fadeIn on the same
\* node cleared the display and finished
C26_Witness ==
  /\ Len(animations) = 2
  /\ animations[1] = Animation("fadeOut", el, "finished", 1)
  /\ animations[2] = Animation("fadeIn", el, "finished", 2)
  /\ display[el] = NoStr
  /\ last.op = "El.finished"

\* C29: when fadeIn is called on a node while an earlier fadeOut on that node
\* still runs, and no later fade is started on it, then once both promises
\* have settled the node is displayed, in whichever order the two animations
\* finish.
C29_LastCallWins ==
  \A i, j \in 1..Len(animations) :
    (/\ i < j
     /\ IsFade(i, "fadeOut") /\ IsFade(j, "fadeIn")
     /\ animations[i].element = animations[j].element
     /\ animations[i].state = "finished" /\ animations[j].state = "finished"
     /\ animations[i].calls >= j
     /\ \A k \in (j + 1)..Len(animations) : animations[k].element # animations[j].element)
    => display[animations[j].element] # <<"none">>

====
